---------------------------- MODULE Spec2Model ----------------------------
(***************************************************************************)
(* Advisory performance ETL: the metric calculator of the Glue job         *)
(* (glue-jobs/advisory_performance_etl.py), the reconciliation engine      *)
(* (lambda-functions/reconciliation_engine.py) and the orchestrator        *)
(* (lambda-functions/etl_orchestrator.py).                                 *)
(*                                                                         *)
(* Numbers.  Money amounts are integers (cents).  Returns are exact        *)
(* rationals <<n, d>> with d > 0 in lowest terms.  A nullable value is     *)
(* either NULL (the empty tuple) or the value itself wrapped as stated at   *)
(* each column.  Floating point rounding is not modelled: every operation  *)
(* is the exact real operation the code asks the engine to perform.        *)
(***************************************************************************)
EXTENDS Integers, Sequences, FiniteSets, TLC

VARIABLES
    pc,                     \* position of the running operation
    df,                     \* the DataFrame: a sequence of rows
    result,                 \* what the operation returned
    reconciliation_results, \* the checks reconcile_file_data has collected
    cross_validations,      \* the findings of the cross-account validation
    db,                     \* the relational store
    event,                  \* the event the orchestrator Lambda was invoked with
    records,                \* the records of the event it has not handled yet
    handler_results,        \* the results list of the orchestrator's lambda_handler
    executions,             \* the workflows (Step Functions, Glue) started
    s3_objects,             \* the bucket: object key -> body
    step_function_arn       \* the orchestrator's STEP_FUNCTION_ARN setting

orchestrator_vars ==
    <<event, records, handler_results, executions, s3_objects, step_function_arn>>

vars ==
    <<pc, df, result, reconciliation_results, cross_validations, db,
      orchestrator_vars>>

(***************************************************************************)
(* SQL NULL / Python None.                                                 *)
(***************************************************************************)
NULL == <<>>

IsNull(v) == v = NULL

\* A nullable integer column holds NULL or <<n>>.
Some(n) == <<n>>

Val(v) == v[1]

\* coalesce(col, lit(0)) on an integer column; Python's (x or 0) on None.
Coalesce0(v) == IF IsNull(v) THEN 0 ELSE Val(v)

Abs(x) == IF x < 0 THEN -x ELSE x

\* The store with no row of the file: performance_data (the rows of the file
\* in the order of the query of get_processed_data), reconciliation_results,
\* and the reconciliation_status the Glue job gives the rows (line 232).
EmptyDb ==
    [performance_data |-> <<>>,
     reconciliation_results |-> <<>>,
     reconciliation_status |-> "PENDING"]

\* no orchestrator invocation in progress
OrchestratorIdle ==
    /\ event = NULL
    /\ records = <<>>
    /\ handler_results = <<>>
    /\ executions = <<>>
    /\ s3_objects = <<>>
    /\ step_function_arn = ""

(***************************************************************************)
(* Exact rationals.                                                        *)
(***************************************************************************)
RECURSIVE Gcd(_, _)
Gcd(a, b) == IF b = 0 THEN a ELSE Gcd(b, a % b)

Rat(n, d) ==
    LET s == IF d < 0 THEN -1 ELSE 1
        g == Gcd(Abs(n), Abs(d))
    IN  <<(s * n) \div g, (s * d) \div g>>

\* over the least common denominator, to keep the intermediate products small
RAdd(p, q) ==
    LET g == Gcd(p[2], q[2])
    IN  Rat(p[1] * (q[2] \div g) + q[1] * (p[2] \div g), (p[2] \div g) * q[2])

RSub(p, q) == Rat(p[1] * q[2] - q[1] * p[2], p[2] * q[2])

RMul(p, q) == Rat(p[1] * q[1], p[2] * q[2])

RPos(p) == p[1] > 0

\* p <= q, compared through the continued fractions of p and q so that no
\* product of a numerator with a denominator is formed.
RECURSIVE RLe(_, _)
RLe(p, q) ==
    LET ip == p[1] \div p[2]
        iq == q[1] \div q[2]
        fp == p[1] % p[2]
        fq == q[1] % q[2]
    IN  IF ip # iq THEN ip < iq
        ELSE IF fp = 0 THEN TRUE
        ELSE IF fq = 0 THEN FALSE
        ELSE RLe(<<q[2], fq>>, <<p[2], fp>>)

RAbs(p) == <<Abs(p[1]), p[2]>>

ROne == <<1, 1>>

RZero == <<0, 1>>

(***************************************************************************)
(* log and exp over the positive rationals, exactly.  By unique            *)
(* factorisation log(n/d) is the sum of e_p * log(p) over the primes p,    *)
(* and the log(p) are linearly independent over the rationals, so a        *)
(* logarithm is represented by its vector of prime exponents: a function   *)
(* from the primes with a non-zero exponent to that exponent.  Adding      *)
(* logarithms adds vectors; exp multiplies the prime powers back.          *)
(***************************************************************************)
RECURSIVE Multiplicity(_, _)
Multiplicity(p, n) == IF n % p = 0 THEN 1 + Multiplicity(p, n \div p) ELSE 0

PrimeDivisors(n) ==
    {p \in 2..n : n % p = 0 /\ \A q \in 2..(p - 1) : p % q # 0}

Ln(f) ==
    [p \in PrimeDivisors(f[1]) \cup PrimeDivisors(f[2]) |->
        Multiplicity(p, f[1]) - Multiplicity(p, f[2])]

LnAdd(u, v) ==
    LET e(p) == (IF p \in DOMAIN u THEN u[p] ELSE 0)
                + (IF p \in DOMAIN v THEN v[p] ELSE 0)
    IN  [p \in {q \in DOMAIN u \cup DOMAIN v : e(q) # 0} |-> e(p)]

RECURSIVE Power(_, _)
Power(b, e) == IF e = 0 THEN 1 ELSE b * Power(b, e - 1)

RECURSIVE PrimePowerProduct(_, _, _)
PrimePowerProduct(v, S, sign) ==
    IF S = {} THEN 1
    ELSE LET p == CHOOSE q \in S : TRUE
         IN  (IF sign * v[p] > 0 THEN Power(p, sign * v[p]) ELSE 1)
             * PrimePowerProduct(v, S \ {p}, sign)

\* pyspark.sql.functions.exp on a non-null logarithm.
ExpOf(v) == <<PrimePowerProduct(v, DOMAIN v, 1), PrimePowerProduct(v, DOMAIN v, -1)>>

(***************************************************************************)
(* Input samples of the metric calculator.                                 *)
(***************************************************************************)
Accounts == {"ACC001", "ACC002"}

Dates == {1, 2}

\* period returns: undefined, 1%, 2%, -50%, -100% (total loss)
TwrrValues == {NULL, <<1, 100>>, <<1, 50>>, <<-1, 2>>, <<-1, 1>>}

NetFlowValues == {NULL, Some(3000)}

MaxRows == 2

CumRows ==
    [account_id : Accounts, as_of_date : Dates,
     calculated_twrr : TwrrValues, net_flow : NetFlowValues]

SeqsUpTo(S, n) == UNION {[1..k -> S] : k \in 1..n}

\* logarithms of the growth factors the samples give, computed once
LnCache == [f \in {RAdd(t, ROne) : t \in {u \in TwrrValues \cup {RZero} : u # NULL /\ RPos(RAdd(u, ROne))}} |-> Ln(f)]

(***************************************************************************)
(* PerformanceCalculator                                                   *)
(***************************************************************************)
\* pyspark.sql.functions.log: NULL for a NULL or non-positive argument.
Log(f) ==
    IF IsNull(f) \/ ~RPos(f) THEN NULL
    ELSE Some(IF f \in DOMAIN LnCache THEN LnCache[f] ELSE Ln(f))

\* The orders Window.partitionBy(account_id).orderBy(as_of_date) may give the
\* rows: rk[i] is the position of row i; rows of one account are ordered by
\* date, rows with equal account and date in an order the engine chooses.
WindowOrders(d) ==
    {rk \in Permutations(1..Len(d)) :
        \A i, j \in 1..Len(d) :
            (d[i].account_id = d[j].account_id
                /\ d[i].as_of_date < d[j].as_of_date) => rk[i] < rk[j]}

\* The frame of a window that was not partitioned by account.
FrameNoPartition(d, rk, i) == {j \in 1..Len(d) : rk[j] <= rk[i]}

\* rowsBetween(Window.unboundedPreceding, Window.currentRow) for row i
Frame(d, rk, i) ==
    {j \in 1..Len(d) : d[j].account_id = d[i].account_id /\ rk[j] <= rk[i]}

\* sum(...) over a frame of nullable logarithms: NULLs are skipped, and the
\* sum of no value is NULL.
RECURSIVE SumLogOver(_, _)
SumLogOver(col, S) ==
    IF S = {} THEN NULL
    ELSE LET j == CHOOSE k \in S : TRUE
             rest == SumLogOver(col, S \ {j})
         IN  IF IsNull(col[j]) THEN rest
             ELSE IF IsNull(rest) THEN col[j]
             ELSE Some(LnAdd(Val(col[j]), Val(rest)))

\* sum(coalesce(col, 0)) over a frame of integers
RECURSIVE SumIntOver(_, _)
SumIntOver(col, S) ==
    IF S = {} THEN 0
    ELSE LET j == CHOOSE k \in S : TRUE
         IN  col[j] + SumIntOver(col, S \ {j})

TwrrFactor(row) ==
    RAdd(IF IsNull(row.calculated_twrr) THEN RZero ELSE row.calculated_twrr, ROne)

calculate_cumulative_twrr(d, rk) ==
    LET twrr_factor == [i \in 1..Len(d) |-> TwrrFactor(d[i])]
        logs == [i \in 1..Len(d) |-> Log(twrr_factor[i])]
        sums == [i \in 1..Len(d) |-> SumLogOver(logs, Frame(d, rk, i))]
        cumulative_twrr_factor ==
            [i \in 1..Len(d) |-> IF IsNull(sums[i]) THEN NULL ELSE ExpOf(Val(sums[i]))]
    IN  [i \in 1..Len(d) |->
            [cumulative_twrr |->
                IF IsNull(cumulative_twrr_factor[i]) THEN NULL
                ELSE RSub(cumulative_twrr_factor[i], ROne)] @@ d[i]]

\* the running sum taken over the whole partition (no frame given)
calculate_cumulative_net_flow_whole_partition(d, rk) ==
    LET flows == [i \in 1..Len(d) |-> Coalesce0(d[i].net_flow)]
    IN  [i \in 1..Len(d) |->
            [cumulative_net_flow |->
                Some(SumIntOver(flows, {j \in 1..Len(d) :
                                           d[j].account_id = d[i].account_id}))]
            @@ d[i]]

calculate_cumulative_net_flow(d, rk) ==
    LET flows == [i \in 1..Len(d) |-> Coalesce0(d[i].net_flow)]
    IN  [i \in 1..Len(d) |->
            [cumulative_net_flow |-> Some(SumIntOver(flows, Frame(d, rk, i)))] @@ d[i]]

(***************************************************************************)
(* SpecCum: the cumulative columns, as calculate_financial_metrics adds     *)
(* them (lines 196-197) to a DataFrame that holds calculated_twrr and      *)
(* net_flow.                                                               *)
(***************************************************************************)
InitCum ==
    /\ pc = "cum_input"
    /\ df \in SeqsUpTo(CumRows, MaxRows)
    /\ result = NULL
    /\ reconciliation_results = <<>>
    /\ cross_validations = <<>>
    /\ db = EmptyDb
    /\ OrchestratorIdle

CumulativeTwrr ==
    /\ pc = "cum_input"
    /\ \E rk \in WindowOrders(df) : df' = calculate_cumulative_twrr(df, rk)
    /\ pc' = "cum_twrr"
    /\ UNCHANGED <<result, reconciliation_results, cross_validations, db, orchestrator_vars>>

CumulativeNetFlow ==
    /\ pc = "cum_twrr"
    /\ \E rk \in WindowOrders(df) : df' = calculate_cumulative_net_flow(df, rk)
    /\ pc' = "cum_done"
    /\ UNCHANGED <<result, reconciliation_results, cross_validations, db, orchestrator_vars>>

NextCum == CumulativeTwrr \/ CumulativeNetFlow

SpecCum == InitCum /\ [][NextCum]_vars

(***************************************************************************)
(* Cumulative return against the direct product.                           *)
(***************************************************************************)
RECURSIVE DirectProduct(_, _)
DirectProduct(d, S) ==
    IF S = {} THEN ROne
    ELSE LET j == CHOOSE k \in S : TRUE
         IN  RMul(RAdd(d[j].calculated_twrr, ROne), DirectProduct(d, S \ {j}))

RowsOf(d, a) == {i \in 1..Len(d) : d[i].account_id = a}

UpTo(d, i) ==
    {j \in RowsOf(d, d[i].account_id) : d[j].as_of_date <= d[i].as_of_date}

AllGrowthPositive(d, a) ==
    \A i \in RowsOf(d, a) :
        ~IsNull(d[i].calculated_twrr) /\ RPos(RAdd(d[i].calculated_twrr, ROne))

UniqueDates(d, a) ==
    \A i, j \in RowsOf(d, a) : d[i].as_of_date = d[j].as_of_date => i = j

CumTwrrDone == pc \in {"cum_twrr", "cum_done"}

calculate_net_flow_no_coalesce(contributions, distributions) ==
    IF IsNull(contributions) \/ IsNull(distributions) THEN NULL
    ELSE Some(Val(contributions) - Val(distributions))

calculate_net_flow(contributions, distributions) ==
    Some(Coalesce0(contributions) - Coalesce0(distributions))

\* The expression ending in otherwise(lit(0)).
calculate_twrr_single_period_zero(beginning_mv, ending_mv, net_flow) ==
    IF IsNull(beginning_mv) THEN RZero
    ELSE LET adj2 == 2 * Val(beginning_mv) + Coalesce0(net_flow)
         IN  IF adj2 > 0
             THEN (IF IsNull(ending_mv) THEN NULL
                   ELSE Rat(2 * Val(ending_mv) - adj2, adj2))
             ELSE RZero

\* adjusted_beginning = beginning_mv + coalesce(net_flow, 0) / 2 is kept as
\* adj2 = 2 * adjusted_beginning; a NULL operand makes the expression NULL and
\* a NULL condition selects otherwise(NULL).
calculate_twrr_single_period(beginning_mv, ending_mv, net_flow) ==
    IF IsNull(beginning_mv) THEN NULL
    ELSE LET adj2 == 2 * Val(beginning_mv) + Coalesce0(net_flow)
         IN  IF adj2 > 0 /\ ~IsNull(ending_mv)
             THEN Rat(2 * Val(ending_mv) - adj2, adj2)
             ELSE NULL

\* calculate_financial_metrics, lines 181-193, on one row
calculate_row_metrics(row) ==
    LET nf == calculate_net_flow(row.contributions, row.distributions)
    IN  [row EXCEPT
            !.net_flow = nf,
            !.calculated_twrr =
                calculate_twrr_single_period(row.beginning_market_value,
                                             row.ending_market_value, nf)]

\* DataValidator defaults (lines 93 and 99) and the default of
\* perform_data_validation (line 211)
default_twrr_tolerance == <<1, 10000>>

default_mv_tolerance == 1

\* DataValidator.check_twrr_tolerance: <<within, variance>>
check_twrr_tolerance(calculated_twrr, vendor_twrr, tolerance) ==
    LET c == IF IsNull(calculated_twrr) THEN RZero ELSE calculated_twrr
        v == IF IsNull(vendor_twrr) THEN RZero ELSE vendor_twrr
        variance == RAbs(RSub(c, v))
    IN  <<Some(RLe(variance, tolerance)), variance>>

\* DataValidator.validate_market_value_equation: <<within, variance>>
validate_market_value_equation(beginning_mv, ending_mv, net_flow, income, appreciation, fees, tolerance) ==
    IF IsNull(beginning_mv) \/ IsNull(ending_mv) THEN <<NULL, NULL>>
    ELSE LET calculated_ending ==
                 Val(beginning_mv) + Coalesce0(net_flow) + Coalesce0(income)
                 + Coalesce0(appreciation) - Coalesce0(fees)
             variance == Abs(Val(ending_mv) - calculated_ending)
         IN  <<Some(variance <= tolerance), Some(variance)>>

\* ETLProcessor.perform_data_validation, lines 210-220, on one row
twrr_validation_columns(row, tolerance) ==
    LET both == ~IsNull(row.calculated_twrr) /\ ~IsNull(row.vendor_twrr)
        variance == RAbs(RSub(row.calculated_twrr, row.vendor_twrr))
    IN  [twrr_within_tolerance |-> IF both THEN Some(RLe(variance, tolerance)) ELSE NULL,
         twrr_variance |-> IF both THEN variance ELSE NULL] @@ row

\* ReconciliationEngine.tolerance_thresholds (lines 30-35), money in cents
twrr_tolerance == <<1, 10000>>

market_value_tolerance == 1

netflow_tolerance == 1

calculate_market_value_reconciliation(row) ==
    LET beginning_mv == Coalesce0(row.beginning_market_value)
        ending_mv == Coalesce0(row.ending_market_value)
        net_flow == Coalesce0(row.net_flow)
        income == Coalesce0(row.income)
        appreciation == Coalesce0(row.appreciation)
        fees == Coalesce0(row.fees)
        other_adjustments == Coalesce0(row.other_adjustments)
        calculated_ending_mv ==
            beginning_mv + net_flow + income + appreciation - fees + other_adjustments
        variance == Abs(ending_mv - calculated_ending_mv)
    IN  [field_name |-> "ending_market_value",
         calculated_value |-> Some(calculated_ending_mv),
         vendor_value |-> Some(ending_mv),
         variance |-> Some(variance),
         tolerance_threshold |-> Some(market_value_tolerance),
         within_tolerance |-> Some(variance <= market_value_tolerance)]

\* The comparison written variance < tolerance.
calculate_twrr_reconciliation_strict(row) ==
    IF IsNull(row.calculated_twrr) \/ IsNull(row.vendor_twrr)
    THEN [field_name |-> "twrr",
          calculated_value |-> row.calculated_twrr,
          vendor_value |-> row.vendor_twrr,
          variance |-> NULL,
          tolerance_threshold |-> twrr_tolerance,
          within_tolerance |-> NULL,
          notes |-> "Missing TWRR values"]
    ELSE LET variance == RAbs(RSub(row.calculated_twrr, row.vendor_twrr))
         IN  [field_name |-> "twrr",
              calculated_value |-> row.calculated_twrr,
              vendor_value |-> row.vendor_twrr,
              variance |-> variance,
              tolerance_threshold |-> twrr_tolerance,
              within_tolerance |->
                  Some(RLe(variance, twrr_tolerance) /\ variance # twrr_tolerance)]

calculate_twrr_reconciliation(row) ==
    IF IsNull(row.calculated_twrr) \/ IsNull(row.vendor_twrr)
    THEN [field_name |-> "twrr",
          calculated_value |-> row.calculated_twrr,
          vendor_value |-> row.vendor_twrr,
          variance |-> NULL,
          tolerance_threshold |-> twrr_tolerance,
          within_tolerance |-> NULL,
          notes |-> "Missing TWRR values"]
    ELSE LET variance == RAbs(RSub(row.calculated_twrr, row.vendor_twrr))
         IN  [field_name |-> "twrr",
              calculated_value |-> row.calculated_twrr,
              vendor_value |-> row.vendor_twrr,
              variance |-> variance,
              tolerance_threshold |-> twrr_tolerance,
              within_tolerance |-> Some(RLe(variance, twrr_tolerance))]

calculate_net_flow_reconciliation(row) ==
    LET contributions == Coalesce0(row.contributions)
        distributions == Coalesce0(row.distributions)
        calculated_net_flow == contributions - distributions
        stored_net_flow == Coalesce0(row.net_flow)
        variance == Abs(calculated_net_flow - stored_net_flow)
    IN  [field_name |-> "net_flow",
         calculated_value |-> Some(calculated_net_flow),
         vendor_value |-> Some(stored_net_flow),
         variance |-> Some(variance),
         tolerance_threshold |-> Some(netflow_tolerance),
         within_tolerance |-> Some(variance <= netflow_tolerance)]

\* The body of the loop of reconcile_file_data (lines 381-401): the three
\* checks of one row, each with the row's account_id and as_of_date.
Keyed(check, row) ==
    [account_id |-> row.account_id, as_of_date |-> row.as_of_date] @@ check

\* The loop body without its net-flow check.
reconcile_row_no_net_flow(row) ==
    <<Keyed(calculate_market_value_reconciliation(row), row),
      Keyed(calculate_twrr_reconciliation(row), row)>>

reconcile_row(row) ==
    <<Keyed(calculate_market_value_reconciliation(row), row),
      Keyed(calculate_twrr_reconciliation(row), row),
      Keyed(calculate_net_flow_reconciliation(row), row)>>

(***************************************************************************)
(* SpecRecord: one record drawn from the samples, then the per-row          *)
(* operations applied to it.                                               *)
(***************************************************************************)
RecordSamples ==
    [account_id : {"ACC001"}, as_of_date : {1},
     beginning_market_value : {Some(0), Some(100000)},
     ending_market_value :
        {NULL, Some(1000), Some(105000), Some(105001), Some(105002)},
     contributions : {NULL, Some(5000)},
     distributions : {NULL, Some(2000)},
     income : {NULL, Some(1200)},
     appreciation : {NULL, Some(800)},
     fees : {NULL, Some(300)},
     other_adjustments : {NULL, Some(300)},
     net_flow : {NULL, Some(3000), Some(3001), Some(3002)},
     calculated_twrr : {NULL, <<117, 5000>>},
     vendor_twrr : {NULL, <<47, 2000>>, <<59, 2500>>}]

InitRecord ==
    /\ pc = "rec_input"
    /\ df \in {<<row>> : row \in RecordSamples}
    /\ result = NULL
    /\ reconciliation_results = <<>>
    /\ cross_validations = <<>>
    /\ db = EmptyDb
    /\ OrchestratorIdle

\* calculate_financial_metrics, the per-row columns
CalculateRowMetrics ==
    /\ pc = "rec_input"
    /\ df' = <<calculate_row_metrics(df[1])>>
    /\ pc' = "rec_metrics"
    /\ UNCHANGED <<result, reconciliation_results, cross_validations, db, orchestrator_vars>>

\* perform_data_validation, the tolerance columns
TwrrValidationColumns ==
    /\ pc = "rec_metrics"
    /\ df' = <<twrr_validation_columns(df[1], default_twrr_tolerance)>>
    /\ pc' = "rec_validated"
    /\ UNCHANGED <<result, reconciliation_results, cross_validations, db, orchestrator_vars>>

\* the two DataValidator checks on the row
ApplyDataValidator ==
    /\ pc = "rec_input"
    /\ result' =
        [twrr |-> check_twrr_tolerance(df[1].calculated_twrr, df[1].vendor_twrr,
                                       default_twrr_tolerance),
         market_value |->
            validate_market_value_equation(
                df[1].beginning_market_value, df[1].ending_market_value,
                df[1].net_flow, df[1].income, df[1].appreciation, df[1].fees,
                default_mv_tolerance)]
    /\ pc' = "rec_validator"
    /\ UNCHANGED <<df, reconciliation_results, cross_validations, db, orchestrator_vars>>

\* the three checks of the reconciliation engine on the row, as drawn or as
\* the Glue job left it
ReconcileRow ==
    /\ pc \in {"rec_input", "rec_validator", "rec_validated"}
    /\ reconciliation_results' = reconcile_row(df[1])
    /\ pc' = "rec_reconciled"
    /\ UNCHANGED <<df, result, cross_validations, db, orchestrator_vars>>

NextRecord ==
    \/ CalculateRowMetrics
    \/ TwrrValidationColumns
    \/ ApplyDataValidator
    \/ ReconcileRow

SpecRecord == InitRecord /\ [][NextRecord]_vars

(***************************************************************************)
(* Properties of the per-row operations.                                   *)
(***************************************************************************)
MetricsDone == pc \in {"rec_metrics", "rec_validated"}

\* contributions - distributions with NULL counted as 0
NetFlowOf(row) == Coalesce0(row.contributions) - Coalesce0(row.distributions)

RollForwardVariance(row) ==
    Abs(Val(row.ending_market_value)
        - (Val(row.beginning_market_value) + Coalesce0(row.net_flow)
           + Coalesce0(row.income) + Coalesce0(row.appreciation)
           - Coalesce0(row.fees) + Coalesce0(row.other_adjustments)))

\* C4: on a record with beginning and ending market value, both
\* DataValidator.validate_market_value_equation and
\* calculate_market_value_reconciliation pass exactly when
\* |endingMV - (beginningMV + netFlow + income + appreciation - fees
\* + otherAdjustments)| <= marketValueTolerance, so they give the same verdict.
C4_RollForwardSameVerdict ==
    (pc = "rec_reconciled" /\ ~IsNull(result) /\ ~IsNull(df[1].ending_market_value)) =>
        LET pass == Some(RollForwardVariance(df[1]) <= market_value_tolerance)
        IN  /\ reconciliation_results[1].within_tolerance = pass
            /\ result.market_value[1] = pass

\* |x - y| of a check's two values: money for the market value and the net
\* flow, a return for the twrr
CheckDifference(check) ==
    IF check.field_name = "twrr"
    THEN RAbs(RSub(check.calculated_value, check.vendor_value))
    ELSE Some(Abs(Val(check.calculated_value) - Val(check.vendor_value)))

CheckPasses(check) ==
    IF check.field_name = "twrr"
    THEN RLe(CheckDifference(check), check.tolerance_threshold)
    ELSE Val(CheckDifference(check)) <= Val(check.tolerance_threshold)

\* C5: in each of the three checks with both values present, variance is
\* |calculated - reference| and within_tolerance is true exactly when the
\* variance is less than or equal to the threshold of the field.
C5_WithinToleranceInclusive ==
    pc = "rec_reconciled" =>
        \A k \in 1..3 :
            LET check == reconciliation_results[k]
            IN  (~IsNull(check.calculated_value) /\ ~IsNull(check.vendor_value)) =>
                    /\ check.variance = CheckDifference(check)
                    /\ check.within_tolerance = Some(CheckPasses(check))

\* calculated 0.0234, reference 0.0235, tolerance 0.0001: variance 0.0001, true
C5_Witness ==
    /\ pc = "rec_reconciled"
    /\ reconciliation_results[2].field_name = "twrr"
    /\ reconciliation_results[2].calculated_value = <<117, 5000>>
    /\ reconciliation_results[2].vendor_value = <<47, 2000>>
    /\ reconciliation_results[2].variance = <<1, 10000>>
    /\ reconciliation_results[2].tolerance_threshold = <<1, 10000>>
    /\ reconciliation_results[2].within_tolerance = Some(TRUE)

EitherTwrrNull(row) == IsNull(row.calculated_twrr) \/ IsNull(row.vendor_twrr)

\* C6: in every return tolerance check, if the calculated or the vendor
\* return is NULL then within_tolerance and the variance are NULL (with a note
\* where the check carries notes): calculate_twrr_reconciliation, the
\* twrr_within_tolerance column of perform_data_validation, and
\* DataValidator.check_twrr_tolerance.
C6_NullReturnIsIndeterminate ==
    /\ (pc = "rec_reconciled" /\ EitherTwrrNull(df[1])) =>
           /\ IsNull(reconciliation_results[2].within_tolerance)
           /\ IsNull(reconciliation_results[2].variance)
           /\ "notes" \in DOMAIN reconciliation_results[2]
    /\ (pc = "rec_validated" /\ EitherTwrrNull(df[1])) =>
           /\ IsNull(df[1].twrr_within_tolerance)
           /\ IsNull(df[1].twrr_variance)
    /\ (pc = "rec_validator" /\ EitherTwrrNull(df[1])) =>
           /\ IsNull(result.twrr[1])
           /\ IsNull(result.twrr[2])

\* C7: a check whose reference value is missing (NULL ending market value,
\* NULL stored net_flow, NULL vendor_twrr) has within_tolerance = NULL and a
\* note; it is never reported as true or as false.
C7_MissingReferenceIsIndeterminate ==
    pc = "rec_reconciled" =>
        /\ IsNull(df[1].ending_market_value) =>
               /\ IsNull(reconciliation_results[1].within_tolerance)
               /\ "notes" \in DOMAIN reconciliation_results[1]
        /\ IsNull(df[1].vendor_twrr) =>
               /\ IsNull(reconciliation_results[2].within_tolerance)
               /\ "notes" \in DOMAIN reconciliation_results[2]
        /\ IsNull(df[1].net_flow) =>
               /\ IsNull(reconciliation_results[3].within_tolerance)
               /\ "notes" \in DOMAIN reconciliation_results[3]

(***************************************************************************)
(* ReconciliationEngine: cross-account validation and the report.          *)
(***************************************************************************)
RECURSIVE RSum(_, _)
RSum(f, S) ==
    IF S = {} THEN RZero
    ELSE LET j == CHOOSE k \in S : TRUE IN RAdd(f[j], RSum(f, S \ {j}))

RLt(p, q) == ~RLe(q, p)

\* unique_dates > 2
has_inconsistent_dates_over_two(unique_dates) == unique_dates > 2

\* line 201
has_inconsistent_dates(unique_dates) == unique_dates > 1

\* 2 * std_twrr in place of 3 * std_twrr
exceeds_two_std(sq_deviation, var_twrr) ==
    RLt(RMul(<<4, 1>>, var_twrr), sq_deviation)

\* std_twrr in place of 3 * std_twrr
exceeds_one_std(sq_deviation, var_twrr) == RLt(var_twrr, sq_deviation)

\* line 222, abs(x - mean_twrr) > 3 * std_twrr, on the squares of both sides
exceeds_three_std(sq_deviation, var_twrr) ==
    RLt(RMul(<<9, 1>>, var_twrr), sq_deviation)

\* The findings of one portfolio group: G is the set of the group's row
\* indices.  std_twrr is kept as its square, the sample variance (ddof = 1);
\* |x - mean| > 3 * std is compared as (x - mean)^2 > 9 * variance.  Every row
\* has an account_id and an as_of_date (nunique counts the present values).
portfolio_findings(d, portfolio_id, G) ==
    LET unique_dates == Cardinality({d[i].as_of_date : i \in G})
        total_accounts == Cardinality({d[i].account_id : i \in G})
        date_finding ==
            IF has_inconsistent_dates(unique_dates)
            THEN <<[validation_type |-> "portfolio_date_consistency",
                    portfolio_id |-> portfolio_id,
                    issue |-> "Inconsistent dates across accounts in portfolio",
                    details |-> [unique_dates |-> unique_dates,
                                 total_accounts |-> total_accounts],
                    severity |-> "WARNING"]>>
            ELSE <<>>
        V == {i \in G : ~IsNull(d[i].calculated_twrr)}
        twrr == [i \in V |-> d[i].calculated_twrr]
        n == Cardinality(V)
        mean_twrr == RMul(RSum(twrr, V), <<1, n>>)
        sq == [i \in V |-> LET dev == RSub(twrr[i], mean_twrr) IN RMul(dev, dev)]
        var_twrr == RMul(RSum(sq, V), <<1, n - 1>>)
        outliers == {i \in V : exceeds_three_std(sq[i], var_twrr)}
        outlier_rows ==
            SelectSeq([i \in 1..Len(d) |-> i], LAMBDA i : i \in outliers)
        outlier_finding ==
            IF n > 1 /\ outliers # {}
            THEN <<[validation_type |-> "twrr_outlier_detection",
                    portfolio_id |-> portfolio_id,
                    issue |-> "Potential TWRR outliers detected",
                    details |-> [outlier_accounts |->
                                     [k \in 1..Len(outlier_rows) |->
                                         d[outlier_rows[k]].account_id],
                                 mean_twrr |-> mean_twrr,
                                 var_twrr |-> var_twrr],
                    severity |-> "WARNING"]>>
            ELSE <<>>
    IN  date_finding \o outlier_finding

RECURSIVE group_findings(_, _)
group_findings(d, P) ==
    IF P = {} THEN <<>>
    ELSE LET p == CHOOSE x \in P : \A y \in P : x[1] <= y[1]
         IN  portfolio_findings(d, p, {i \in 1..Len(d) : d[i].portfolio_id = p})
             \o group_findings(d, P \ {p})

\* perform_cross_account_validation: nothing unless the DataFrame has a
\* portfolio_id column; groupby drops the rows whose portfolio_id is NULL and
\* yields the groups in the order of their keys (a portfolio id is <<k>>).
perform_cross_account_validation(d) ==
    IF Len(d) = 0 \/ "portfolio_id" \notin DOMAIN d[1] THEN <<>>
    ELSE group_findings(d, {d[i].portfolio_id : i \in 1..Len(d)} \ {NULL})

\* Python truth of within_tolerance: True only (False and None are falsy)
Truthy(check) == check.within_tolerance = Some(TRUE)

HasSeverity(cross, sev) == \E i \in 1..Len(cross) : cross[i].severity = sev

\* round(x, 2) of a non-negative rational, in hundredths, ties to even
Round2(x) ==
    LET scaled == x[1] * 100
        q == scaled \div x[2]
        r2 == 2 * (scaled % x[2])
    IN  IF r2 > x[2] \/ (r2 = x[2] /\ q % 2 = 1) THEN q + 1 ELSE q

\* an if / elif chain: only the first message that applies
get_recommendation_first_only(pass_rate, failed_checks, cross) ==
    IF RLt(pass_rate, <<95, 1>>) THEN <<(<<"Low pass rate detected">>)>>
    ELSE IF failed_checks > 0
         THEN <<(<<"reconciliation checks failed", failed_checks>>)>>
    ELSE IF HasSeverity(cross, "ERROR")
         THEN <<(<<"Critical validation errors detected">>)>>
    ELSE IF HasSeverity(cross, "WARNING")
         THEN <<(<<"Data quality warnings detected">>)>>
    ELSE <<(<<"All reconciliation checks passed">>)>>

\* Each recommendation is a tuple: its text and, for the failed checks, the
\* number the text is formatted with.
get_recommendation(pass_rate, failed_checks, cross) ==
    LET recommendations ==
            (IF RLt(pass_rate, <<95, 1>>) THEN <<(<<"Low pass rate detected">>)>> ELSE <<>>)
            \o (IF failed_checks > 0
                THEN <<(<<"reconciliation checks failed", failed_checks>>)>> ELSE <<>>)
            \o (IF HasSeverity(cross, "ERROR")
                THEN <<(<<"Critical validation errors detected">>)>> ELSE <<>>)
            \o (IF HasSeverity(cross, "WARNING")
                THEN <<(<<"Data quality warnings detected">>)>> ELSE <<>>)
    IN  IF recommendations = <<>> THEN <<(<<"All reconciliation checks passed">>)>>
        ELSE recommendations

\* overall_status decided by the failed checks alone
overall_status_ignoring_findings(failed_checks, cross) ==
    IF failed_checks = 0 THEN "PASS" ELSE "FAIL"

\* line 334
overall_status_of(failed_checks, cross) ==
    IF failed_checks = 0 /\ ~HasSeverity(cross, "ERROR") THEN "PASS" ELSE "FAIL"

\* failures_by_field[field] = [result] in place of the append
failures_by_field_last_only(results) ==
    LET failed == SelectSeq(results, LAMBDA r : ~Truthy(r))
    IN  [f \in {failed[i].field_name : i \in 1..Len(failed)} |->
            LET of_field == SelectSeq(failed, LAMBDA r : r.field_name = f)
            IN  <<of_field[Len(of_field)]>>]

\* lines 309-315: the checks whose within_tolerance is falsy, by field_name,
\* each list in the order of the checks
failures_by_field_of(results) ==
    LET failed == SelectSeq(results, LAMBDA r : ~Truthy(r))
    IN  [f \in {failed[i].field_name : i \in 1..Len(failed)} |->
            SelectSeq(failed, LAMBDA r : r.field_name = f)]

generate_reconciliation_report(results, cross) ==
    LET total_checks == Len(results)
        passed_checks == Len(SelectSeq(results, Truthy))
        failed_checks == total_checks - passed_checks
        pass_rate ==
            IF total_checks > 0 THEN Rat(passed_checks * 100, total_checks) ELSE RZero
        failures_by_field == failures_by_field_of(results)
        validation_summary ==
            [sev \in {cross[i].severity : i \in 1..Len(cross)} |->
                Cardinality({i \in 1..Len(cross) : cross[i].severity = sev})]
    IN  [reconciliation_summary |->
            [total_checks |-> total_checks,
             passed_checks |-> passed_checks,
             failed_checks |-> failed_checks,
             pass_rate_percentage |-> Round2(pass_rate)],
         failures_by_field |-> failures_by_field,
         cross_validation_summary |-> validation_summary,
         detailed_results |-> results,
         cross_validations |-> cross,
         overall_status |-> overall_status_of(failed_checks, cross),
         recommendation |-> get_recommendation(pass_rate, failed_checks, cross)]

(***************************************************************************)
(* Spec: a run of reconcile_file_data over the rows of one file.           *)
(***************************************************************************)
\* Example 1 at 1/100 of its amounts: every check passes.
BaseRow ==
    [account_id |-> "ACC001", as_of_date |-> 1,
     beginning_market_value |-> Some(100000), ending_market_value |-> Some(105000),
     contributions |-> Some(5000), distributions |-> Some(2000),
     income |-> Some(1200), appreciation |-> Some(800), fees |-> Some(300),
     other_adjustments |-> Some(300), net_flow |-> Some(3000),
     calculated_twrr |-> <<117, 5000>>, vendor_twrr |-> <<47, 2000>>]

\* all pass; market value off by 0.02; return off by 0.0002; undefined
\* return; no ending market value
RowVariants ==
    {BaseRow,
     [BaseRow EXCEPT !.ending_market_value = Some(105002)],
     [BaseRow EXCEPT !.vendor_twrr = <<59, 2500>>],
     [BaseRow EXCEPT !.calculated_twrr = NULL],
     [BaseRow EXCEPT !.ending_market_value = NULL]}

ReconRows ==
    {[r EXCEPT !.account_id = a, !.as_of_date = t] :
        r \in RowVariants, a \in Accounts, t \in Dates}

MaxRecords == 3

\* A missing account_id and a missing as_of_date (NULL after the cast).  The
\* window sorts a NULL date first; NoDate is below every date.
NoAccount == ""

NoDate == 0

\* ORDER BY account_id, as_of_date (line 93): ascending, a NULL after every
\* value
KeyLe(r1, r2) ==
    LET account_rank(a) == IF a = "ACC001" THEN 1 ELSE IF a = "ACC002" THEN 2 ELSE 3
        date_rank(t) == IF t = NoDate THEN 1 + Cardinality(Dates) ELSE t
    IN  \/ account_rank(r1.account_id) < account_rank(r2.account_id)
        \/ /\ r1.account_id = r2.account_id
           /\ date_rank(r1.as_of_date) <= date_rank(r2.as_of_date)

\* the rows of the table as the query returns them: sorted by key, rows with
\* equal keys in the order of the table (the tables of Init hold such rows in
\* either order)
order_by(rows) ==
    LET at == CHOOSE f \in [1..Len(rows) -> 1..Len(rows)] :
                  /\ \A i, j \in 1..Len(rows) : f[i] = f[j] => i = j
                  /\ \A i, j \in 1..Len(rows) : i < j =>
                         /\ KeyLe(rows[f[i]], rows[f[j]])
                         /\ KeyLe(rows[f[j]], rows[f[i]]) => f[i] < f[j]
    IN  [i \in 1..Len(rows) |-> rows[at[i]]]

\* what ORDER BY account_id, as_of_date can return for a file of up to
\* MaxRecords rows (rows with equal keys in either order)
OrderedBatches ==
    {<<>>} \cup
    {b \in SeqsUpTo(ReconRows, MaxRecords) :
        \A i \in 1..(Len(b) - 1) : KeyLe(b[i], b[i + 1])}

HasNullNumber(row) ==
    \E c \in {"beginning_market_value", "ending_market_value", "contributions",
              "distributions", "income", "appreciation", "fees",
              "other_adjustments", "net_flow", "calculated_twrr", "vendor_twrr"} :
        IsNull(row[c])

Failed == [status |-> "FAILED"]

Init ==
    /\ pc = "start"
    /\ df = <<>>
    /\ result = NULL
    /\ reconciliation_results = <<>>
    /\ cross_validations = <<>>
    /\ db \in {[EmptyDb EXCEPT !.performance_data = b] : b \in OrderedBatches}
    /\ OrchestratorIdle

\* get_processed_data (line 369): the rows of the file
GetProcessedData ==
    /\ pc = "start"
    /\ df' = order_by(db.performance_data)
    /\ pc' = "loaded"
    /\ UNCHANGED <<result, reconciliation_results, cross_validations, db, orchestrator_vars>>

\* the connection or the query raises: caught at line 425
GetProcessedDataFails ==
    /\ pc = "start"
    /\ result' = Failed
    /\ pc' = "returned"
    /\ UNCHANGED <<df, reconciliation_results, cross_validations, db, orchestrator_vars>>

\* lines 371-376
ReturnNoData ==
    /\ pc = "loaded"
    /\ Len(df) = 0
    /\ result' = [status |-> "NO_DATA"]
    /\ pc' = "returned"
    /\ UNCHANGED <<df, reconciliation_results, cross_validations, db, orchestrator_vars>>

NextRow == Len(reconciliation_results) \div 3 + 1

\* one iteration of the loop of lines 381-401
ReconcileNextRow ==
    /\ pc = "loaded"
    /\ NextRow <= Len(df)
    /\ reconciliation_results' = reconciliation_results \o reconcile_row(df[NextRow])
    /\ UNCHANGED <<pc, df, result, cross_validations, db, orchestrator_vars>>

\* pandas hands a NULL of a numeric column over as None or as NaN; with NaN
\* the Decimal comparison of a check raises InvalidOperation (line 425)
ReconcileNextRowRaises ==
    /\ pc = "loaded"
    /\ NextRow <= Len(df)
    /\ HasNullNumber(df[NextRow])
    /\ result' = Failed
    /\ pc' = "returned"
    /\ UNCHANGED <<df, reconciliation_results, cross_validations, db, orchestrator_vars>>

\* line 404, after the last row
CrossAccountValidation ==
    /\ pc = "loaded"
    /\ Len(df) > 0
    /\ NextRow > Len(df)
    /\ cross_validations' = perform_cross_account_validation(df)
    /\ pc' = "cross_validated"
    /\ UNCHANGED <<df, result, reconciliation_results, db, orchestrator_vars>>

\* a store that keeps only the rows of the last statement
insert_rows_replacing(table, rows) == rows

\* The relational store behind INSERT INTO: the rows are added to the table
\* (a bulk insertion; the table declares no key that would refuse a row).
insert_rows(table, rows) == table \o rows

\* save_reconciliation_results (line 407): every row inserted, one commit
SaveResults ==
    /\ pc = "cross_validated"
    /\ db' = [db EXCEPT !.reconciliation_results =
                            insert_rows(@, reconciliation_results)]
    /\ pc' = "saved"
    /\ UNCHANGED <<df, result, reconciliation_results, cross_validations, orchestrator_vars>>

\* it raises before the commit: nothing is inserted
SaveResultsFails ==
    /\ pc = "cross_validated"
    /\ result' = Failed
    /\ pc' = "returned"
    /\ UNCHANGED <<df, reconciliation_results, cross_validations, db, orchestrator_vars>>

ReportOfRun == generate_reconciliation_report(reconciliation_results, cross_validations)

\* lines 410-423: the report, the status update, the return value
ReportAndUpdateStatus ==
    /\ pc = "saved"
    /\ db' = [db EXCEPT !.reconciliation_status =
                 IF ReportOfRun.overall_status = "PASS" THEN "COMPLETED"
                 ELSE "COMPLETED_WITH_ISSUES"]
    /\ result' = [status |-> "SUCCESS", report |-> ReportOfRun]
    /\ pc' = "returned"
    /\ UNCHANGED <<df, reconciliation_results, cross_validations, orchestrator_vars>>

\* update_reconciliation_status raises
UpdateStatusFails ==
    /\ pc = "saved"
    /\ result' = Failed
    /\ pc' = "returned"
    /\ UNCHANGED <<df, reconciliation_results, cross_validations, db, orchestrator_vars>>

Next ==
    \/ GetProcessedData
    \/ GetProcessedDataFails
    \/ ReturnNoData
    \/ ReconcileNextRow
    \/ ReconcileNextRowRaises
    \/ CrossAccountValidation
    \/ SaveResults
    \/ SaveResultsFails
    \/ ReportAndUpdateStatus
    \/ UpdateStatusFails

Spec == Init /\ [][Next]_vars

RunProducedChecks ==
    \/ pc \in {"cross_validated", "saved"}
    \/ pc = "returned" /\ result.status = "SUCCESS"

CheckFields == <<"ending_market_value", "twrr", "net_flow">>

\* C8: for a non-empty batch of n records reconcile_file_data produces exactly
\* 3n checks: per record one market-value, one return and one net-flow check,
\* each with the record's account_id and as_of_date; total_checks of the
\* report is 3n.
C8_ThreeChecksPerRecord ==
    RunProducedChecks =>
        /\ Len(df) > 0
        /\ Len(reconciliation_results) = 3 * Len(df)
        /\ \A i \in 1..Len(df) : \A k \in 1..3 :
               LET check == reconciliation_results[3 * (i - 1) + k]
               IN  /\ check.field_name = CheckFields[k]
                   /\ check.account_id = df[i].account_id
                   /\ check.as_of_date = df[i].as_of_date
        /\ pc = "returned" =>
               result.report.reconciliation_summary.total_checks = 3 * Len(df)

\* three records of two accounts, nine checks in the report
C8_Witness ==
    /\ pc = "returned"
    /\ result.status = "SUCCESS"
    /\ Len(df) = 3
    /\ df[1].account_id # df[3].account_id
    /\ result.report.reconciliation_summary.total_checks = 9
    /\ Len(result.report.detailed_results) = 9

(***************************************************************************)
(* SpecReport: generate_reconciliation_report on the checks of up to       *)
(* MaxRecords rows and up to MaxFindings findings of either severity.      *)
(***************************************************************************)
MaxFindings == 2

FindingSamples ==
    {[validation_type |-> "portfolio_date_consistency", portfolio_id |-> Some(1),
      issue |-> "Inconsistent dates across accounts in portfolio",
      details |-> [unique_dates |-> 2, total_accounts |-> 2], severity |-> "WARNING"],
     [validation_type |-> "manual_review", portfolio_id |-> Some(1),
      issue |-> "Critical", details |-> <<>>, severity |-> "ERROR"]}

RECURSIVE reconcile_rows(_)
reconcile_rows(b) ==
    IF b = <<>> THEN <<>> ELSE reconcile_row(Head(b)) \o reconcile_rows(Tail(b))

InitReport ==
    /\ pc = "report_input"
    /\ df = <<>>
    /\ result = NULL
    /\ reconciliation_results \in
           {reconcile_rows(b) : b \in {<<>>} \cup SeqsUpTo(RowVariants, MaxRecords)}
    /\ cross_validations \in {<<>>} \cup SeqsUpTo(FindingSamples, MaxFindings)
    /\ db = EmptyDb
    /\ OrchestratorIdle

GenerateReport ==
    /\ pc = "report_input"
    /\ result' = generate_reconciliation_report(reconciliation_results, cross_validations)
    /\ pc' = "report_done"
    /\ UNCHANGED <<df, reconciliation_results, cross_validations, db, orchestrator_vars>>

NextReport == GenerateReport

SpecReport == InitReport /\ [][NextReport]_vars

CountWithin(results, v) ==
    Cardinality({i \in 1..Len(results) : results[i].within_tolerance = v})

\* C9: a check whose within_tolerance is NULL is counted in total_checks but
\* neither in passed_checks nor in failed_checks, and is not listed among the
\* failures.
C9_NullNeitherPassedNorFailed ==
    pc = "report_done" =>
        LET summary == result.reconciliation_summary
        IN  /\ summary.total_checks = Len(reconciliation_results)
            /\ summary.passed_checks = CountWithin(reconciliation_results, Some(TRUE))
            /\ summary.failed_checks = CountWithin(reconciliation_results, Some(FALSE))
            /\ \A f \in DOMAIN result.failures_by_field :
                   \A i \in 1..Len(result.failures_by_field[f]) :
                       ~IsNull(result.failures_by_field[f][i].within_tolerance)

\* C10: overall_status is PASS if and only if failed_checks = 0 and no
\* cross-validation finding has severity ERROR; otherwise it is FAIL.
C10_OverallStatus ==
    pc = "report_done" =>
        LET clean ==
                /\ result.reconciliation_summary.failed_checks = 0
                /\ \A i \in 1..Len(cross_validations) :
                       cross_validations[i].severity # "ERROR"
        IN  result.overall_status = IF clean THEN "PASS" ELSE "FAIL"

\* 9 checks, 2 failed, no ERROR finding: FAIL
C10_Witness ==
    /\ pc = "report_done"
    /\ result.reconciliation_summary.total_checks = 9
    /\ result.reconciliation_summary.failed_checks = 2
    /\ \A i \in 1..Len(cross_validations) : cross_validations[i].severity # "ERROR"
    /\ result.overall_status = "FAIL"


(***************************************************************************)
(* The recommendations of the report (get_recommendation).                 *)
(***************************************************************************)
Recommends(report, message) ==
    \E i \in 1..Len(report.recommendation) : report.recommendation[i] = message

\* the pass rate get_recommendation is called with (line 306, not rounded)
PassRateOf(report) ==
    LET summary == report.reconciliation_summary
    IN  IF summary.total_checks > 0
        THEN Rat(summary.passed_checks * 100, summary.total_checks) ELSE RZero

\* C11: the recommendation list is never empty; it holds the low-pass-rate
\* message iff the pass rate is below 95, the "N checks failed" message (with
\* N = failed_checks) iff failed_checks > 0, the critical-errors message iff a
\* finding has severity ERROR, the warnings message iff a finding has severity
\* WARNING, and the all-passed message iff none of the four conditions holds.
C11_Recommendations ==
    pc = "report_done" =>
        LET low == ~RLe(<<95, 1>>, PassRateOf(result))
            failed == result.reconciliation_summary.failed_checks
            errors == \E i \in 1..Len(cross_validations) :
                          cross_validations[i].severity = "ERROR"
            warnings == \E i \in 1..Len(cross_validations) :
                            cross_validations[i].severity = "WARNING"
        IN  /\ Len(result.recommendation) > 0
            /\ Recommends(result, <<"Low pass rate detected">>) <=> low
            /\ \A n \in 0..(3 * (MaxRecords + 1)) :
                   Recommends(result, <<"reconciliation checks failed", n>>)
                       <=> (failed > 0 /\ n = failed)
            /\ Recommends(result, <<"Critical validation errors detected">>) <=> errors
            /\ Recommends(result, <<"Data quality warnings detected">>) <=> warnings
            /\ Recommends(result, <<"All reconciliation checks passed">>)
                   <=> ~(low \/ failed > 0 \/ errors \/ warnings)

\* one failed check of nine (pass rate 88.89) with a WARNING and an ERROR
\* finding: all four messages, in the order of the code
C11_Witness ==
    /\ pc = "report_done"
    /\ result.reconciliation_summary.total_checks = 9
    /\ result.reconciliation_summary.failed_checks = 1
    /\ result.recommendation =
           <<(<<"Low pass rate detected">>),
             (<<"reconciliation checks failed", 1>>),
             (<<"Critical validation errors detected">>),
             (<<"Data quality warnings detected">>)>>

\* every check passes and there is no finding: the all-passed message alone
C11_WitnessAllPassed ==
    /\ pc = "report_done"
    /\ result.reconciliation_summary.total_checks = 3
    /\ result.recommendation = <<(<<"All reconciliation checks passed">>)>>


(***************************************************************************)
(* failures_by_field of the report.                                        *)
(***************************************************************************)
RECURSIVE GroupSizes(_, _)
GroupSizes(groups, F) ==
    IF F = {} THEN 0
    ELSE LET f == CHOOSE x \in F : TRUE
         IN  Len(groups[f]) + GroupSizes(groups, F \ {f})

\* the positions of the checks of field f that passed_checks does not count
FailedPositions(results, f) ==
    SelectSeq([i \in 1..Len(results) |-> i],
              LAMBDA i : results[i].field_name = f
                         /\ results[i].within_tolerance # Some(TRUE))

\* C12: failures_by_field partitions the failed checks (those failed_checks
\* counts) by field_name: the group of a field holds exactly the failed checks
\* of that field, each once; no check with within_tolerance = TRUE is in any
\* group; the sizes of the groups sum to failed_checks.
C12_FailuresPartitioned ==
    pc = "report_done" =>
        LET groups == result.failures_by_field
            fields == {reconciliation_results[i].field_name :
                          i \in 1..Len(reconciliation_results)}
        IN  /\ DOMAIN groups \subseteq fields
            /\ \A f \in fields :
                   LET at == FailedPositions(reconciliation_results, f)
                   IN  IF at = <<>> THEN f \notin DOMAIN groups
                       ELSE /\ f \in DOMAIN groups
                            /\ groups[f] =
                                   [k \in 1..Len(at) |-> reconciliation_results[at[k]]]
            /\ \A f \in DOMAIN groups : \A k \in 1..Len(groups[f]) :
                   /\ groups[f][k].field_name = f
                   /\ groups[f][k].within_tolerance # Some(TRUE)
            /\ GroupSizes(groups, DOMAIN groups)
                   = result.reconciliation_summary.failed_checks

\* nine checks, three failed: two market-value checks and one return check
C12_Witness ==
    /\ pc = "report_done"
    /\ result.reconciliation_summary.total_checks = 9
    /\ result.reconciliation_summary.failed_checks = 3
    /\ DOMAIN result.failures_by_field = {"ending_market_value", "twrr"}
    /\ Len(result.failures_by_field["ending_market_value"]) = 2
    /\ Len(result.failures_by_field["twrr"]) = 1


(***************************************************************************)
(* SpecCross: perform_cross_account_validation on a DataFrame that has a   *)
(* portfolio_id column.  A batch is a group of portfolio 1 (rows with a    *)
(* common return, rows with a far return, rows with no return) followed by *)
(* rows of another portfolio or of no portfolio.                           *)
(***************************************************************************)
MaxGroup == 11

CommonReturns == {<<1, 100>>, <<1, 50>>}

FarReturns == {<<1, 2>>, <<-1, 2>>}

\* n rows of portfolio p, accounts first .. first + n - 1 (an account_id is
\* written as its number)
GroupRows(p, first, n, twrr, date) ==
    [k \in 1..n |-> [account_id |-> first + k - 1, as_of_date |-> date,
                     portfolio_id |-> p, calculated_twrr |-> twrr]]

\* Example 5 of the specification: one portfolio, five accounts
Example5 ==
    LET returns == <<(<<1, 100>>), (<<1, 50>>), (<<3, 200>>), (<<3, 250>>), (<<1, 2>>)>>
    IN  [k \in 1..5 |-> [account_id |-> k, as_of_date |-> 1,
                         portfolio_id |-> Some(1), calculated_twrr |-> returns[k]]]

\* what follows the group of portfolio 1 in a batch
OtherRows(first) ==
    {<<>>,
     GroupRows(Some(2), first, 2, <<1, 100>>, 1),
     GroupRows(Some(2), first, 1, <<1, 100>>, 1)
         \o GroupRows(Some(2), first + 1, 1, <<1, 50>>, 2),
     GroupRows(Some(2), first, 1, <<1, 100>>, 1)
         \o GroupRows(Some(2), first, 1, <<1, 50>>, 2),
     GroupRows(NULL, first, 2, <<1, 2>>, 2)}

CrossBatches ==
    {Example5} \cup
    OtherRows(1) \cup
    UNION {{GroupRows(Some(1), 1, na, a, 1)
                \o GroupRows(Some(1), na + 1, nb, b, t)
                \o GroupRows(Some(1), na + nb + 1, nn, NULL, 1)
                \o rest : rest \in OtherRows(na + nb + nn + 1)} :
              na \in 1..MaxGroup, nb \in 0..2, nn \in 0..1,
              a \in CommonReturns, b \in FarReturns, t \in Dates}

InitCross ==
    /\ pc = "cross_input"
    /\ df \in CrossBatches
    /\ result = NULL
    /\ reconciliation_results = <<>>
    /\ cross_validations = <<>>
    /\ db = EmptyDb
    /\ OrchestratorIdle

CrossValidate ==
    /\ pc = "cross_input"
    /\ cross_validations' = perform_cross_account_validation(df)
    /\ pc' = "cross_done"
    /\ UNCHANGED <<df, result, reconciliation_results, db, orchestrator_vars>>

NextCross == CrossValidate

SpecCross == InitCross /\ [][NextCross]_vars


CrossDone == pc = "cross_done"

\* the portfolio groups of the DataFrame (groupby drops a NULL key)
PortfolioIds == {df[i].portfolio_id : i \in 1..Len(df)} \ {NULL}

GroupOf(p) == {i \in 1..Len(df) : df[i].portfolio_id = p}

WithReturn(p) == {i \in GroupOf(p) : ~IsNull(df[i].calculated_twrr)}

ReturnSum(p) == RSum([i \in WithReturn(p) |-> df[i].calculated_twrr], WithReturn(p))

\* n * (x_i - mean), squared
ScaledSqDeviation(p, i) ==
    LET n == Cardinality(WithReturn(p))
        dev == RSub(RMul(<<n, 1>>, df[i].calculated_twrr), ReturnSum(p))
    IN  RMul(dev, dev)

ScaledSqSum(p) ==
    RSum([i \in WithReturn(p) |-> ScaledSqDeviation(p, i)], WithReturn(p))

\* |x_i - mean| > 3 * std with std^2 = sum of (x_j - mean)^2 / (n - 1):
\* (n - 1) * (n (x_i - mean))^2 > 9 * sum of (n (x_j - mean))^2
FarFromMean(p, i) ==
    LET n == Cardinality(WithReturn(p))
    IN  ~RLe(RMul(<<n - 1, 1>>, ScaledSqDeviation(p, i)),
             RMul(<<9, 1>>, ScaledSqSum(p)))

FindingsOf(p, type) ==
    SelectSeq(cross_validations,
              LAMBDA v : v.validation_type = type /\ v.portfolio_id = p)

C15_DateConsistencyFinding ==
    CrossDone =>
        \A p \in PortfolioIds :
            LET dates == {df[i].as_of_date : i \in GroupOf(p)}
                accounts == {df[i].account_id : i \in GroupOf(p)}
                found == FindingsOf(p, "portfolio_date_consistency")
            IN  IF Cardinality(dates) > 1
                THEN /\ Len(found) = 1
                     /\ found[1].severity = "WARNING"
                     /\ found[1].details =
                            [unique_dates |-> Cardinality(dates),
                             total_accounts |-> Cardinality(accounts)]
                ELSE Len(found) = 0

\* portfolio 1 on one date, no finding; portfolio 2 with one account on two
\* dates, one finding
C15_Witness ==
    /\ CrossDone
    /\ Cardinality(GroupOf(Some(1))) >= 2
    /\ Len(FindingsOf(Some(1), "portfolio_date_consistency")) = 0
    /\ Len(FindingsOf(Some(2), "portfolio_date_consistency")) = 1
    /\ FindingsOf(Some(2), "portfolio_date_consistency")[1].details =
           [unique_dates |-> 2, total_accounts |-> 1]


(***************************************************************************)
(* The portfolios of the accounts, and what a run of reconcile_file_data   *)
(* hands to the Cross-Account Validator.                                   *)
(***************************************************************************)
\* the accounts table: ACC001 and ACC002 belong to portfolio PORT001
accounts_portfolio == [a \in Accounts |-> "PORT001"]

RunSucceeded == pc = "returned" /\ result.status = "SUCCESS"

\* C16: in a run of reconcile_file_data the Cross-Account Validator gets the
\* batch with each record's portfolio id: a batch in which accounts of one
\* portfolio have different as_of_date values yields a date-consistency
\* finding in the cross_validations of the returned report.
C16_RunValidatesPortfolios ==
    RunSucceeded =>
        /\ \A i, j \in 1..Len(df) :
               /\ accounts_portfolio[df[i].account_id]
                      = accounts_portfolio[df[j].account_id]
               /\ df[i].as_of_date # df[j].as_of_date
               => \E k \in 1..Len(result.report.cross_validations) :
                      result.report.cross_validations[k].validation_type
                          = "portfolio_date_consistency"
        /\ \A i \in 1..Len(df) : "portfolio_id" \in DOMAIN df[i]


(***************************************************************************)
(* An undefined period return in the cumulative return.                    *)
(***************************************************************************)
\* the same history with every undefined period return replaced by 0
ZeroForNull(d) ==
    [i \in 1..Len(d) |->
        [d[i] EXCEPT !.calculated_twrr = IF IsNull(@) THEN RZero ELSE @]]

CumulativeColumn(d) == [i \in 1..Len(d) |-> d[i].cumulative_twrr]

\* C18: calculate_cumulative_twrr does not give a history that contains a
\* null period return the cumulative_twrr values of the same history with
\* that return replaced by 0.
C18_NullReturnNotZero ==
    (CumTwrrDone /\ \E i \in 1..Len(df) : IsNull(df[i].calculated_twrr)) =>
        \A rk \in WindowOrders(df) :
            CumulativeColumn(calculate_cumulative_twrr(ZeroForNull(df), rk))
                # CumulativeColumn(df)


(***************************************************************************)
(* SpecRuns: reconcile_file_data invoked again for the same file and       *)
(* vendor, after a run that failed or succeeded.                           *)
(***************************************************************************)
MaxRuns == 2

\* the runs that have committed their checks so far
SavedRuns ==
    IF Len(db.performance_data) = 0 THEN 0
    ELSE Len(db.reconciliation_results) \div (3 * Len(db.performance_data))

\* lambda_handler called again with the same file_name and vendor: a new
\* ReconciliationEngine, the database as the earlier runs left it
RunAgain ==
    /\ pc = "returned"
    /\ SavedRuns < MaxRuns
    /\ pc' = "start"
    /\ df' = <<>>
    /\ result' = NULL
    /\ reconciliation_results' = <<>>
    /\ cross_validations' = <<>>
    /\ UNCHANGED <<db, orchestrator_vars>>

NextRuns == Next \/ RunAgain

SpecRuns == Init /\ [][NextRuns]_vars

UniqueKeys(rows) ==
    \A i, j \in 1..Len(rows) :
        (rows[i].account_id = rows[j].account_id
            /\ rows[i].as_of_date = rows[j].as_of_date) => i = j

\* C19: after any number of runs of reconcile_file_data for the same file
\* (whose records have pairwise distinct account and date), the persisted
\* reconciliation_results hold at most one row per (account_id, as_of_date,
\* field_name).
C19_OneRowPerKey ==
    UniqueKeys(db.performance_data) =>
        \A i, j \in 1..Len(db.reconciliation_results) :
            (/\ db.reconciliation_results[i].account_id
                    = db.reconciliation_results[j].account_id
             /\ db.reconciliation_results[i].as_of_date
                    = db.reconciliation_results[j].as_of_date
             /\ db.reconciliation_results[i].field_name
                    = db.reconciliation_results[j].field_name) => i = j


(***************************************************************************)
(* SpecEtl: ETLProcessor.process_file on the rows of one vendor file,      *)
(* after the columns were renamed and cast.                                *)
(***************************************************************************)
MaxEtlRows == 2

\* validation_rules.required_fields of the vendor mapping
required_fields == {"account_id", "as_of_date"}

InputColumns == DOMAIN BaseRow \ {"net_flow", "calculated_twrr"}

\* rows of a vendor file: Example 1, with or without an ending market value,
\* for every account and date, present or missing
EtlRows ==
    {[c \in InputColumns |->
         IF c = "account_id" THEN a
         ELSE IF c = "as_of_date" THEN t
         ELSE IF c = "ending_market_value" THEN e
         ELSE BaseRow[c]] :
        a \in Accounts \cup {NoAccount}, t \in Dates \cup {NoDate},
        e \in {BaseRow.ending_market_value, NULL}}

\* col(field).isNotNull()
IsNotNull(row, field) ==
    IF field = "account_id" THEN row.account_id # NoAccount
    ELSE IF field = "as_of_date" THEN row.as_of_date # NoDate
    ELSE ~IsNull(row[field])

\* DataValidator.validate_required_fields: a flag column, no row is removed
validate_required_fields(d, fields) ==
    [i \in 1..Len(d) |->
        [has_required_fields |-> \A f \in fields : IsNotNull(d[i], f)] @@ d[i]]

\* ETLProcessor.calculate_financial_metrics
calculate_financial_metrics(d, rk1, rk2) ==
    LET with_metrics ==
            [i \in 1..Len(d) |->
                calculate_row_metrics(
                    [net_flow |-> NULL, calculated_twrr |-> NULL] @@ d[i])]
    IN  calculate_cumulative_net_flow(
            calculate_cumulative_twrr(with_metrics, rk1), rk2)

\* ETLProcessor.perform_data_validation
perform_data_validation(d) ==
    LET flagged == validate_required_fields(d, required_fields)
    IN  [i \in 1..Len(d) |->
            twrr_validation_columns(flagged[i], default_twrr_tolerance)]

\* the columns prepare_for_database selects, the timestamps and the
\* benchmark_return left out
required_columns ==
    {"account_id", "as_of_date", "beginning_market_value", "ending_market_value",
     "contributions", "distributions", "income", "appreciation", "fees",
     "other_adjustments", "net_flow", "cumulative_net_flow", "calculated_twrr",
     "cumulative_twrr", "vendor_twrr", "twrr_within_tolerance", "twrr_variance",
     "reconciliation_status"}

\* ETLProcessor.prepare_for_database
prepare_for_database(d) ==
    [i \in 1..Len(d) |->
        LET row == [reconciliation_status |-> "PENDING"] @@ d[i]
        IN  [c \in required_columns |-> IF c \in DOMAIN row THEN row[c] ELSE NULL]]


InitEtl ==
    /\ pc = "etl_input"
    /\ df \in SeqsUpTo(EtlRows, MaxEtlRows)
    /\ result = NULL
    /\ reconciliation_results = <<>>
    /\ cross_validations = <<>>
    /\ db = EmptyDb
    /\ OrchestratorIdle

\* lines 286-301: the mapping cannot be loaded, the format is not supported
\* or the file cannot be read
ReadInputFails ==
    /\ pc = "etl_input"
    /\ result' = Failed
    /\ pc' = "etl_returned"
    /\ UNCHANGED <<df, reconciliation_results, cross_validations, db, orchestrator_vars>>

\* line 312
CalculateFinancialMetrics ==
    /\ pc = "etl_input"
    /\ \E rk1, rk2 \in WindowOrders(df) :
           df' = calculate_financial_metrics(df, rk1, rk2)
    /\ pc' = "etl_metrics"
    /\ UNCHANGED <<result, reconciliation_results, cross_validations, db, orchestrator_vars>>

\* line 315
PerformDataValidation ==
    /\ pc = "etl_metrics"
    /\ df' = perform_data_validation(df)
    /\ pc' = "etl_validated"
    /\ UNCHANGED <<result, reconciliation_results, cross_validations, db, orchestrator_vars>>

\* validate_required_fields calls reduce, which the module does not import:
\* where it is no builtin (Python 3) the call raises, caught at line 337
PerformDataValidationRaises ==
    /\ pc = "etl_metrics"
    /\ result' = Failed
    /\ pc' = "etl_returned"
    /\ UNCHANGED <<df, reconciliation_results, cross_validations, db, orchestrator_vars>>

\* lines 318-319
PrepareForDatabase ==
    /\ pc = "etl_validated"
    /\ df' = prepare_for_database(df)
    /\ pc' = "etl_prepared"
    /\ UNCHANGED <<result, reconciliation_results, cross_validations, db, orchestrator_vars>>

\* write_to_database (line 322): mode("append"), every row of df
WriteToDatabase ==
    /\ pc = "etl_prepared"
    /\ db' = [db EXCEPT !.performance_data = insert_rows(@, df)]
    /\ pc' = "etl_written"
    /\ UNCHANGED <<df, result, reconciliation_results, cross_validations, orchestrator_vars>>

\* the rows of d at the positions S, in the order of d
RowsAt(d, S) ==
    LET at == CHOOSE f \in [1..Cardinality(S) -> S] :
                  \A i, j \in 1..Cardinality(S) : i < j => f[i] < f[j]
    IN  [i \in 1..Cardinality(S) |-> d[at[i]]]

\* The secret, the connection or the write raises.  The JDBC writer commits
\* each partition on its own: the rows of the partitions that were written
\* before the failure stay in the table (none, some, or all of them when it
\* is the df.count() of line 270 that fails).
WriteToDatabaseFails ==
    /\ pc = "etl_prepared"
    /\ \E written \in SUBSET (1..Len(df)) :
           db' = [db EXCEPT !.performance_data = insert_rows(@, RowsAt(df, written))]
    /\ result' = Failed
    /\ pc' = "etl_returned"
    /\ UNCHANGED <<df, reconciliation_results, cross_validations, orchestrator_vars>>

\* lines 325-335: the counts and the SUCCESS record.  The filter names
\* has_required_fields, a column of the DataFrame under the select of
\* prepare_for_database, which the analyzer resolves from there.
LogProcessingResults ==
    /\ pc = "etl_written"
    /\ result' =
           [status |-> "SUCCESS",
            total_records |-> Len(df),
            valid_records |->
                Len(SelectSeq(validate_required_fields(df, required_fields),
                              LAMBDA row : row.has_required_fields))]
    /\ pc' = "etl_returned"
    /\ UNCHANGED <<df, reconciliation_results, cross_validations, db, orchestrator_vars>>

\* df.count() or the filter raises after the write (the DataFrame is computed
\* again from the file; an analyzer that does not resolve the column the
\* select left out); caught at line 337
LogProcessingResultsRaises ==
    /\ pc = "etl_written"
    /\ result' = Failed
    /\ pc' = "etl_returned"
    /\ UNCHANGED <<df, reconciliation_results, cross_validations, db, orchestrator_vars>>

NextEtl ==
    \/ ReadInputFails
    \/ CalculateFinancialMetrics
    \/ PerformDataValidation
    \/ PerformDataValidationRaises
    \/ PrepareForDatabase
    \/ WriteToDatabase
    \/ WriteToDatabaseFails
    \/ LogProcessingResults
    \/ LogProcessingResultsRaises

SpecEtl == InitEtl /\ [][NextEtl]_vars

\* a record without account_id or as_of_date, or two records with the same
\* account_id and as_of_date
Malformed(d) ==
    \/ \E i \in 1..Len(d) :
           d[i].account_id = NoAccount \/ d[i].as_of_date = NoDate
    \/ \E i, j \in 1..Len(d) :
           /\ i # j
           /\ d[i].account_id = d[j].account_id
           /\ d[i].as_of_date = d[j].as_of_date

\* C17: a batch with a record that lacks account_id or as_of_date, or with two
\* records of the same (account_id, as_of_date), is rejected before
\* calculate_financial_metrics runs: no metrics are computed for it, nothing
\* is written to the database, and process_file ends as a failure.
C17_MalformedBatchRejected ==
    Malformed(df) =>
        /\ pc \notin {"etl_metrics", "etl_validated", "etl_prepared", "etl_written"}
        /\ db.performance_data = <<>>
        /\ pc = "etl_returned" => result.status = "FAILED"


(***************************************************************************)
(* SpecOrchestrator: lambda_handler of etl_orchestrator.py.  An object key *)
(* is written as its parts: folder/prefix...extension.                     *)
(***************************************************************************)
MaxEventRecords == 2

\* a vendor_a file; the key it is moved to; a vendor_b file with the
\* extension of vendor_a; a file no pattern matches
ObjectKeys ==
    {[folder |-> <<>>, prefix |-> "vendor_a_", extension |-> "csv"],
     [folder |-> <<"processing">>, prefix |-> "vendor_a_", extension |-> "csv"],
     [folder |-> <<>>, prefix |-> "vendor_b_", extension |-> "csv"],
     [folder |-> <<"incoming">>, prefix |-> "report_", extension |-> "csv"]}

EventRecords ==
    [eventSource : {"aws:s3", "aws:sns"}, key : ObjectKeys]

Events ==
    {[kind |-> "Records", Records |-> r] :
        r \in {<<>>} \cup SeqsUpTo(EventRecords, MaxEventRecords)}
    \cup {[kind |-> "test_file", test_file |-> k] : k \in ObjectKeys}
    \cup {[kind |-> "other"]}

\* The bucket when the handler is invoked: every key holds the file uploaded
\* to it (origin: the key of the upload, ContentLength 10), except for at most
\* one key that holds nothing or an empty file.
UploadedTo(k) == [origin |-> k, ContentLength |-> 10]

Buckets ==
    {[k \in ObjectKeys |-> UploadedTo(k)]}
    \cup {[k \in ObjectKeys \ {gone} |-> UploadedTo(k)] : gone \in ObjectKeys}
    \cup {[k \in ObjectKeys |->
              IF k = empty THEN [origin |-> k, ContentLength |-> 0]
              ELSE UploadedTo(k)] : empty \in ObjectKeys}

\* ETLOrchestrator.determine_vendor
determine_vendor(file_name) ==
    IF file_name.prefix \in {"vendor_a_", "vendora_", "va_"} THEN "vendor_a"
    ELSE IF file_name.prefix \in {"vendor_b_", "vendorb_", "vb_"} THEN "vendor_b"
    ELSE IF file_name.prefix \in {"vendor_c_", "vendorc_", "vc_"} THEN "vendor_c"
    ELSE "vendor_a"

\* ETLOrchestrator.validate_file_format
validate_file_format(file_name, vendor) ==
    file_name.extension \in
        (CASE vendor = "vendor_a" -> {"csv"}
           [] vendor = "vendor_b" -> {"xlsx", "xls"}
           [] vendor = "vendor_c" -> {"json"}
           [] OTHER -> {})

\* what head_object can answer for a key: an error (NULL; always for a key
\* that holds nothing), or the metadata of the object
head_object(objects, key) ==
    {NULL} \cup
    (IF key \in DOMAIN objects
     THEN [UploadId : BOOLEAN, ContentLength : {objects[key].ContentLength}]
     ELSE {})

\* a readiness check that does not look at the size
check_file_readiness_any_size(response) ==
    /\ response # NULL
    /\ ~response.UploadId

\* ETLOrchestrator.check_file_readiness on the answer of head_object
\* (UploadId: the key 'UploadId' is in the response)
check_file_readiness(response) ==
    /\ response # NULL
    /\ ~response.UploadId
    /\ response.ContentLength # 0

\* key.startswith(('processing/', 'archive/', 'error/')), line 182
in_skipped_folder(key) ==
    /\ key.folder # <<>>
    /\ key.folder[1] \in {"processing", "archive", "error"}

\* process_s3_event up to the move of the file: TRUE when the file goes on to
\* be moved and a workflow to be started, FALSE when the method returns None
\* (lines 182-199); ready is what check_file_readiness returned
reaches_workflow(key, ready) ==
    /\ ~in_skipped_folder(key)
    /\ ready
    /\ validate_file_format(key, determine_vendor(key))

\* f"processing/{key}", line 136
processing_key(key) == [key EXCEPT !.folder = <<"processing">> \o @]

\* a copy that writes nothing
copy_object_nothing(objects, source, target) == objects

\* s3_client.copy_object: the target key holds the body of the source
copy_object(objects, source, target) ==
    [k \in DOMAIN objects \cup {target} |->
        IF k = target THEN objects[source] ELSE objects[k]]

\* s3_client.delete_object
delete_object(objects, key) == [k \in DOMAIN objects \ {key} |-> objects[k]]

\* the response of process_s3_event, lines 221-228
started_response(key) ==
    [statusCode |-> 200, file |-> key, vendor |-> determine_vendor(key)]

\* the workflow of lines 205-219 for the moved file (an unset
\* STEP_FUNCTION_ARN is written "": not truthy either)
workflow_for(key, arn) ==
    [kind |-> IF arn # "" THEN "step_function" ELSE "glue_job",
     input_path |-> processing_key(key),
     vendor |-> determine_vendor(key)]

InitOrchestrator ==
    /\ pc = "handler_start"
    /\ df = <<>>
    /\ result = NULL
    /\ reconciliation_results = <<>>
    /\ cross_validations = <<>>
    /\ db = EmptyDb
    /\ event \in Events
    /\ records = <<>>
    /\ handler_results = <<>>
    /\ executions = <<>>
    /\ s3_objects \in Buckets
    /\ step_function_arn \in {"", "arn:aws:states:etl_workflow"}

orchestrator_unchanged ==
    <<df, reconciliation_results, cross_validations, db, event, step_function_arn>>

\* line 245: the event has Records
EnterRecords ==
    /\ pc = "handler_start"
    /\ event.kind = "Records"
    /\ records' = event.Records
    /\ pc' = "handler_loop"
    /\ UNCHANGED <<orchestrator_unchanged, result, handler_results, executions, s3_objects>>

\* lines 253-261: the direct invocation builds one record from test_file
EnterTestFile ==
    /\ pc = "handler_start"
    /\ event.kind = "test_file"
    /\ records' = <<[eventSource |-> "none", key |-> event.test_file]>>
    /\ pc' = "handler_loop"
    /\ UNCHANGED <<orchestrator_unchanged, result, handler_results, executions, s3_objects>>

\* the record process_s3_event is called with next
IsProcessed(record) == event.kind = "test_file" \/ record.eventSource = "aws:s3"

\* line 247: a record of another event source is passed over
SkipRecord ==
    /\ pc = "handler_loop"
    /\ records # <<>>
    /\ ~IsProcessed(Head(records))
    /\ records' = Tail(records)
    /\ UNCHANGED <<orchestrator_unchanged, pc, result, handler_results, executions, s3_objects>>

\* lines 248-250 and 261-262: the results list after process_s3_event
\* returned; a Records event keeps a truthy result only
results_with(returned) ==
    IF event.kind = "test_file" \/ returned # NULL
    THEN Append(handler_results, returned)
    ELSE handler_results

\* process_s3_event returns None at line 184, 189 or 199
ProcessRecordReturnsNone ==
    /\ pc = "handler_loop"
    /\ records # <<>>
    /\ IsProcessed(Head(records))
    /\ \E response \in head_object(s3_objects, Head(records).key) :
           ~reaches_workflow(Head(records).key, check_file_readiness(response))
    /\ handler_results' = results_with(NULL)
    /\ records' = Tail(records)
    /\ UNCHANGED <<orchestrator_unchanged, pc, result, executions, s3_objects>>

\* lines 182-202 and 136-144: the checks pass and move_file_to_processing
\* copies the object
CopyObject ==
    /\ pc = "handler_loop"
    /\ records # <<>>
    /\ IsProcessed(Head(records))
    /\ \E response \in head_object(s3_objects, Head(records).key) :
           reaches_workflow(Head(records).key, check_file_readiness(response))
    /\ s3_objects' = copy_object(s3_objects, Head(records).key,
                                 processing_key(Head(records).key))
    /\ pc' = "copied"
    /\ UNCHANGED <<orchestrator_unchanged, result, records, handler_results, executions>>

\* the response of lines 275-281
FailedResponse == [statusCode |-> 500, message |-> "Lambda execution failed"]

\* copy_object raises (lines 152-154, 230-234); lambda_handler answers at
\* line 273
CopyObjectRaises ==
    /\ pc = "handler_loop"
    /\ records # <<>>
    /\ IsProcessed(Head(records))
    /\ \E response \in head_object(s3_objects, Head(records).key) :
           reaches_workflow(Head(records).key, check_file_readiness(response))
    /\ result' = FailedResponse
    /\ pc' = "returned"
    /\ UNCHANGED <<orchestrator_unchanged, records, handler_results, executions, s3_objects>>

\* line 147
DeleteObject ==
    /\ pc = "copied"
    /\ s3_objects' = delete_object(s3_objects, Head(records).key)
    /\ pc' = "moved"
    /\ UNCHANGED <<orchestrator_unchanged, result, records, handler_results, executions>>

\* delete_object raises
DeleteObjectRaises ==
    /\ pc = "copied"
    /\ result' = FailedResponse
    /\ pc' = "returned"
    /\ UNCHANGED <<orchestrator_unchanged, records, handler_results, executions, s3_objects>>

\* lines 205-228: the workflow is started and process_s3_event returns its
\* response
StartWorkflow ==
    /\ pc = "moved"
    /\ executions' =
           Append(executions, workflow_for(Head(records).key, step_function_arn))
    /\ handler_results' = results_with(Some(started_response(Head(records).key)))
    /\ records' = Tail(records)
    /\ pc' = "handler_loop"
    /\ UNCHANGED <<orchestrator_unchanged, result, s3_objects>>

\* start_execution or start_job_run raises (lines 128-130, 102-104)
StartWorkflowRaises ==
    /\ pc = "moved"
    /\ result' = FailedResponse
    /\ pc' = "returned"
    /\ UNCHANGED <<orchestrator_unchanged, records, handler_results, executions, s3_objects>>

\* lines 264-271, after the loop, the direct invocation or neither
ReturnResponse ==
    /\ \/ pc = "handler_loop" /\ records = <<>>
       \/ pc = "handler_start" /\ event.kind = "other"
    /\ result' = [statusCode |-> 200,
                  message |-> "Lambda execution completed",
                  processed_files |-> Len(handler_results),
                  results |-> handler_results]
    /\ pc' = "returned"
    /\ UNCHANGED <<orchestrator_unchanged, records, handler_results, executions, s3_objects>>

NextOrchestrator ==
    \/ EnterRecords
    \/ EnterTestFile
    \/ SkipRecord
    \/ ProcessRecordReturnsNone
    \/ CopyObject
    \/ CopyObjectRaises
    \/ DeleteObject
    \/ DeleteObjectRaises
    \/ StartWorkflow
    \/ StartWorkflowRaises
    \/ ReturnResponse

SpecOrchestrator == InitOrchestrator /\ [][NextOrchestrator]_vars

\* C20: lambda_handler returns statusCode 200 or 500; with 200 (no record's
\* processing raised) processed_files is the number of files for which a
\* workflow was started, for a Records event and for a test_file invocation.
C20_ProcessedFilesAreStarted ==
    pc = "returned" =>
        /\ result.statusCode \in {200, 500}
        /\ result.statusCode = 200 => result.processed_files = Len(executions)


(***************************************************************************)
(* SpecCumOrder: the cumulative columns on histories with pairwise         *)
(* distinct (account_id, as_of_date), the rows in any input order.         *)
(***************************************************************************)
MaxHistory == 3

HistoryRows ==
    [account_id : Accounts, as_of_date : Dates,
     calculated_twrr : {NULL, <<1, 100>>, <<-1, 2>>}, net_flow : NetFlowValues]

InitCumOrder ==
    /\ pc = "cum_input"
    /\ df \in {h \in SeqsUpTo(HistoryRows, MaxHistory) : UniqueKeys(h)}
    /\ result = NULL
    /\ reconciliation_results = <<>>
    /\ cross_validations = <<>>
    /\ db = EmptyDb
    /\ OrchestratorIdle

SpecCumOrder == InitCumOrder /\ [][NextCum]_vars

RECURSIVE NetFlowSum(_, _)
NetFlowSum(d, S) ==
    IF S = {} THEN 0
    ELSE LET j == CHOOSE k \in S : TRUE
         IN  (IF IsNull(d[j].net_flow) THEN 0 ELSE Val(d[j].net_flow))
             + NetFlowSum(d, S \ {j})

\* exp(sum(log(1 + coalesce(r, 0)))) - 1 over the rows S
AggregatedReturn(d, S) ==
    LET total == SumLogOver([j \in 1..Len(d) |-> Log(TwrrFactor(d[j]))], S)
    IN  IF IsNull(total) THEN NULL ELSE RSub(ExpOf(Val(total)), ROne)

\* C21: with unique (account_id, as_of_date), each record's
\* cumulative_net_flow is the sum of net_flow (NULL as 0) over exactly the
\* records of its account dated up to and including its own, and
\* cumulative_twrr is aggregated over the same records, wherever the rows
\* stand in the input and however other accounts' rows are interleaved.
C21_CumulativeOverAccountHistory ==
    (pc = "cum_done" /\ UniqueKeys(df)) =>
        \A i \in 1..Len(df) :
            /\ df[i].cumulative_net_flow = Some(NetFlowSum(df, UpTo(df, i)))
            /\ df[i].cumulative_twrr = AggregatedReturn(df, UpTo(df, i))

\* ACC001's later record first, then a record of ACC002, then ACC001's
\* earlier record
C21_Witness ==
    /\ pc = "cum_done"
    /\ Len(df) = 3
    /\ df[1].account_id = "ACC001" /\ df[1].as_of_date = 2
    /\ df[2].account_id = "ACC002" /\ df[2].net_flow = Some(3000)
    /\ df[3].account_id = "ACC001" /\ df[3].as_of_date = 1
    /\ df[1].net_flow = Some(3000) /\ df[3].net_flow = Some(3000)
    /\ df[1].cumulative_net_flow = Some(6000)
    /\ df[3].cumulative_net_flow = Some(3000)
    /\ df[2].cumulative_net_flow = Some(3000)
    /\ df[1].calculated_twrr = <<1, 100>> /\ df[3].calculated_twrr = <<1, 100>>
    /\ df[1].cumulative_twrr = <<201, 10000>>


(***************************************************************************)
(* A period with 1 + periodReturn <= 0 in the cumulative return.           *)
(***************************************************************************)
AllReturnsKnown(d, a) == \A i \in RowsOf(d, a) : ~IsNull(d[i].calculated_twrr)

NonPositiveGrowth(row) == ~RPos(RAdd(row.calculated_twrr, ROne))

\* C23: in an account (returns all known, dates unique) with a period whose
\* 1 + periodReturn <= 0, that period and every later one get a
\* cumulative_twrr that is NULL or the direct product of (1 + periodReturn)
\* minus 1: never a value from which the period's factor was left out.
C23_NonPositiveGrowthKept ==
    CumTwrrDone =>
        \A a \in Accounts : (AllReturnsKnown(df, a) /\ UniqueDates(df, a)) =>
            \A i, j \in RowsOf(df, a) :
                (NonPositiveGrowth(df[i]) /\ df[i].as_of_date <= df[j].as_of_date)
                    => \/ IsNull(df[j].cumulative_twrr)
                       \/ df[j].cumulative_twrr
                              = RSub(DirectProduct(df, UpTo(df, j)), ROne)


(***************************************************************************)
(* What a run of reconcile_file_data leaves alone.                         *)
(***************************************************************************)
MaxStored == 2

\* the reconciliation_status a completed run gives the rows b (lines 413-418)
status_of_run(b) ==
    IF generate_reconciliation_report(reconcile_rows(b),
           perform_cross_account_validation(b)).overall_status = "PASS"
    THEN "COMPLETED"
    ELSE "COMPLETED_WITH_ISSUES"

\* The store when reconcile_file_data is invoked for a file of up to
\* MaxStored rows: no earlier run has saved anything, or an earlier run saved
\* its checks and then failed to update the status, or it completed.
StoredFiles ==
    UNION {{[performance_data |-> b, reconciliation_results |-> saved[1],
             reconciliation_status |-> saved[2]] :
                saved \in {<<<<>>, "PENDING">>,
                           <<reconcile_rows(b), "PENDING">>,
                           <<reconcile_rows(b), status_of_run(b)>>}} :
           b \in {c \in OrderedBatches : Len(c) <= MaxStored}}

InitStored ==
    /\ pc = "start"
    /\ df = <<>>
    /\ result = NULL
    /\ reconciliation_results = <<>>
    /\ cross_validations = <<>>
    /\ db \in StoredFiles
    /\ OrchestratorIdle

SpecStored == InitStored /\ [][Next]_vars

HeldFor(objects, key) ==
    \E at \in {key, processing_key(key)} \cap DOMAIN objects :
        objects[at].origin = key

\* the files this invocation has moved: at a processing key, gone from
\* their own
MovedFiles ==
    {k \in ObjectKeys :
        /\ k \notin DOMAIN s3_objects
        /\ processing_key(k) \in DOMAIN s3_objects
        /\ s3_objects[processing_key(k)].origin = k}

WorkflowsFor(key) ==
    {i \in 1..Len(executions) : executions[i].input_path = processing_key(key)}

\* C25: once the handler has returned, every file moved into processing/ has
\* exactly one started workflow, a Step Functions execution when
\* STEP_FUNCTION_ARN is set and a Glue job run otherwise.
C25_MovedFileHasOneWorkflow ==
    pc = "returned" =>
        \A k \in MovedFiles :
            /\ Cardinality(WorkflowsFor(k)) = 1
            /\ \A i \in WorkflowsFor(k) :
                   executions[i].kind =
                       IF step_function_arn # "" THEN "step_function" ELSE "glue_job"

\* C26: a step changes the bucket or starts a workflow only for a record
\* whose key is outside processing/, archive/ and error/, has the extension
\* of its vendor, and whose file is not empty; otherwise objects stay at
\* their keys and no workflow is started.
C26_MoveOnlyWhenEligible ==
    [][(s3_objects' # s3_objects \/ executions' # executions) =>
          /\ records # <<>>
          /\ ~in_skipped_folder(Head(records).key)
          /\ validate_file_format(Head(records).key,
                                  determine_vendor(Head(records).key))
          /\ \E at \in {Head(records).key, processing_key(Head(records).key)}
                          \cap DOMAIN s3_objects :
                 /\ s3_objects[at].origin = Head(records).key
                 /\ s3_objects[at].ContentLength > 0]_vars

\* one file of the event was moved and started, the other (empty) was not
C26_Witness ==
    /\ pc = "returned"
    /\ result.statusCode = 200
    /\ Cardinality(MovedFiles) = 1
    /\ Len(executions) = 1
    /\ event.kind = "Records"
    /\ Len(event.Records) = 2
    /\ \E k \in DOMAIN s3_objects :
           /\ s3_objects[k].ContentLength = 0
           /\ \E i \in 1..2 : /\ event.Records[i].key = k
                              /\ event.Records[i].eventSource = "aws:s3"
                              /\ reaches_workflow(k, TRUE)

\* C27: while process_s3_event handles a record whose file is at its key or
\* at processing/<key>, every step (a failed copy or delete included) leaves
\* it at one of the two.
C27_FileNeverLost ==
    [][(records # <<>> /\ HeldFor(s3_objects, Head(records).key))
          => HeldFor(s3_objects', Head(records).key)]_vars

\* the delete failed after the copy: the file is at both keys
C27_WitnessDeleteFailed ==
    /\ pc = "returned"
    /\ result.statusCode = 500
    /\ records # <<>>
    /\ Head(records).key \in DOMAIN s3_objects
    /\ processing_key(Head(records).key) \in DOMAIN s3_objects
    /\ s3_objects[processing_key(Head(records).key)].origin = Head(records).key


C29_AllOrNothing ==
    pc = "returned" =>
        /\ result.status = "SUCCESS" =>
               /\ db.reconciliation_results = reconciliation_results
               /\ db.reconciliation_status =
                      IF result.report.overall_status = "PASS" THEN "COMPLETED"
                      ELSE "COMPLETED_WITH_ISSUES"
        /\ result.status \in {"FAILED", "NO_DATA"} =>
               /\ db.reconciliation_results = <<>>
               /\ db.reconciliation_status = "PENDING"


WorkflowFile == [folder |-> <<>>, prefix |-> "vendor_a_", extension |-> "csv"]

\* the records of the file the workflow was started for
FileRecords == s3_objects[executions[1].input_path].records

InitPipeline ==
    /\ pc = "etl_input"
    /\ df \in SeqsUpTo(EtlRows, MaxEtlRows)
    /\ result = NULL
    /\ reconciliation_results = <<>>
    /\ cross_validations = <<>>
    /\ db = EmptyDb
    /\ event = NULL
    /\ records = <<>>
    /\ handler_results = <<>>
    /\ step_function_arn = "arn:aws:states:etl_workflow"
    /\ executions = <<workflow_for(WorkflowFile, step_function_arn)>>
    /\ s3_objects = [k \in {processing_key(WorkflowFile)} |->
                        [origin |-> WorkflowFile, ContentLength |-> 10, records |-> df]]

\* The step of the workflow after the Glue job: the job run has ended (main
\* logs the result of process_file and commits the job whatever its status),
\* and the reconciliation Lambda is invoked with the file's name and vendor.
StartReconciliation ==
    /\ pc = "etl_returned"
    /\ pc' = "start"
    /\ df' = <<>>
    /\ result' = NULL
    /\ UNCHANGED <<reconciliation_results, cross_validations, db, orchestrator_vars>>

NextPipeline == NextEtl \/ StartReconciliation \/ Next

SpecPipeline == InitPipeline /\ [][NextPipeline]_vars

=============================================================================
